---- MODULE Spec2Model ----
(***************************************************************************)
(* Model of the live expense dashboards (dashboard.py and dashboard1.py):  *)
(* the cached load_data, the script run that Streamlit repeats on every    *)
(* user interaction, the "Refresh now" button of dashboard.py, and the     *)
(* pandas pipeline that derives the filtered view, the category summary,   *)
(* the daily series and the CSV export from the loaded frame.              *)
(*                                                                         *)
(* Time is counted in whole seconds.  A timestamp is a number of ticks,    *)
(* TicksPerDay ticks to a calendar day; tick 0 of a day is midnight.       *)
(***************************************************************************)
EXTENDS Integers, Sequences, FiniteSets, TLC

\* ---------------------------------------------------------------- bounds
\* rows the external writer may put in the transactions table
MaxRows == 2
\* seconds a cache entry is aged before the clock stops being advanced
MaxIdle == 6
\* connections left open at which the model stops failing queries
MaxOpen == 1
\* resolution of a timestamp: ticks per calendar day
TicksPerDay == 2

\* ------------------------------------------------------- program constants
\* @st.cache_data(ttl=5)
TTL == 5

\* ------------------------------------------------------------ value domains
\* pandas NaT: what to_datetime(errors='coerce') yields for unparseable text
NaT == -1

\* the two scripts
Variants == {"dashboard", "dashboard1"}

\* category texts, listed in ascending text order
CategoryOrder == <<"food", "rent">>

Categories == {CategoryOrder[i] : i \in DOMAIN CategoryOrder}

Amounts == {1, 2}

\* texts the writer stores in the date column
RawDates == {"2024-01-01", "2024-01-01 13:00", "2024-01-02", "n/a"}

\* calendar dates the date_input widgets can return
Days == {0, 1}

DayText == <<"2024-01-01", "2024-01-02">>

Ts(day, tick) == day * TicksPerDay + tick

\* rank of a category text in text order (the order sorted() and groupby use)
CategoryRank(c) == CHOOSE i \in DOMAIN CategoryOrder : CategoryOrder[i] = c

\* ------------------------------------------------------------ pandas helpers
\* pd.to_datetime(text, errors='coerce')
to_datetime(text) ==
  CASE text = "2024-01-01"       -> Ts(0, 0)
    [] text = "2024-01-01 13:00" -> Ts(0, 1)
    [] text = "2024-01-02"       -> Ts(1, 0)
    [] OTHER                     -> NaT

\* pd.to_datetime(d) for a datetime.date d: midnight of that day
date_to_datetime(d) == Ts(d, 0)

\* Timestamp.date() / Series.dt.date: the calendar day, time of day dropped
dt_date(ts) == ts \div TicksPerDay

\* Series >= Timestamp and Series <= Timestamp: any comparison with NaT is False
ts_ge(a, b) == a # NaT /\ b # NaT /\ a >= b

ts_le(a, b) == a # NaT /\ b # NaT /\ a <= b

RECURSIVE SumAmount(_)
SumAmount(frame) ==
  IF frame = <<>> THEN 0 ELSE Head(frame).amount + SumAmount(Tail(frame))

\* the elements of a finite set of integers in ascending order
RECURSIVE Ascending(_)
Ascending(S) ==
  IF S = {} THEN <<>>
  ELSE LET m == CHOOSE x \in S : \A y \in S : x <= y
       IN  <<m>> \o Ascending(S \ {m})

Reverse(s) == [i \in 1..Len(s) |-> s[Len(s) + 1 - i]]

\* the normalisation of load_data: date and created_at through to_datetime
Normalize(rows) ==
  [i \in 1..Len(rows) |->
     [rows[i] EXCEPT !.date = to_datetime(rows[i].date),
                     !.created_at = to_datetime(rows[i].created_at)]]

\* "SELECT * FROM transactions ORDER BY id DESC"
SelectOrderByIdDesc(table) == Reverse(table)

\* "SELECT * FROM transactions ORDER BY date DESC": the date column is text,
\* rows of equal date come in an order the store chooses
SelectOrderByDateDesc(table) ==
  LET n == Len(table)
      rank(text) == CASE text = "n/a"              -> 4
                      [] text = "2024-01-02"       -> 3
                      [] text = "2024-01-01 13:00" -> 2
                      [] OTHER                     -> 1
  IN  {q \in {[i \in 1..n |-> table[p[i]]] : p \in Permutations(1..n)} :
         \A i \in 1..n, j \in 1..n : i < j => rank(q[i].date) >= rank(q[j].date)}

\* df[df['category'].isin(categories)]
isin(frame, categories) ==
  SelectSeq(frame, LAMBDA r : r.category \in categories)

\* filtered[(filtered['date'] >= pd.to_datetime(date_from)) &
\*          (filtered['date'] <= pd.to_datetime(date_to))]
between(frame, date_from, date_to) ==
  SelectSeq(frame, LAMBDA r : /\ ts_ge(r.date, date_to_datetime(date_from))
                              /\ ts_le(r.date, date_to_datetime(date_to)))

\* the filtered view of both scripts
Filtered(frame, categories, date_from, date_to) ==
  between(isin(frame, categories), date_from, date_to)

\* sorted(df['category'].dropna().unique())
categories_all(frame) == {frame[i].category : i \in DOMAIN frame}

\* filtered.groupby('category')['amount'].sum().reset_index():
\* one row per category of the view, in ascending category order
groupby_category(frame) ==
  LET ranks == Ascending({CategoryRank(frame[i].category) : i \in DOMAIN frame})
  IN  [k \in 1..Len(ranks) |->
         [category |-> CategoryOrder[ranks[k]],
          amount   |-> SumAmount(SelectSeq(frame,
                         LAMBDA r : r.category = CategoryOrder[ranks[k]]))]]

\* .sort_values('amount', ascending=False) with the default kind='quicksort',
\* which is not stable: every descending arrangement of the rows is an outcome
sort_values_desc(rows) ==
  LET n == Len(rows)
  IN  {q \in {[i \in 1..n |-> rows[p[i]]] : p \in Permutations(1..n)} :
         \A i \in 1..n, j \in 1..n : i < j => q[i].amount >= q[j].amount}

\* the outcomes of the summary expression of both scripts
Summaries(frame) == sort_values_desc(groupby_category(frame))

\* groupby(keys)['amount'].sum().reset_index(), keys[i] the key of row i:
\* one row per key value, ascending
groupby_key(frame, keys) ==
  LET keyed  == [i \in 1..Len(frame) |-> [key |-> keys[i], amount |-> frame[i].amount]]
      groups == Ascending({keys[i] : i \in DOMAIN frame})
  IN  [k \in 1..Len(groups) |->
         [date   |-> groups[k],
          amount |-> SumAmount(SelectSeq(keyed, LAMBDA r : r.key = groups[k]))]]

\* dashboard.py: filtered.groupby(filtered['date'].dt.date)
daily_by_day(frame) ==
  groupby_key(frame, [i \in 1..Len(frame) |-> dt_date(frame[i].date)])

\* dashboard1.py: filtered.groupby('date'), the key is the full timestamp
daily_by_timestamp(frame) ==
  groupby_key(frame, [i \in 1..Len(frame) |-> frame[i].date])

Daily(variant, frame) ==
  IF variant = "dashboard" THEN daily_by_day(frame)
  ELSE daily_by_timestamp(frame)

\* ------------------------------------------------------------------ export
\* the columns of the frame, as SELECT * returns them
Columns == <<"id", "category", "amount", "date", "description", "created_at">>

\* filtered[['date','category','amount','description']], the table of the UI
TableColumns == <<"date", "category", "amount", "description">>

\* to_csv's text of a datetime column: empty for NaT; the date alone when no
\* value of the column has a time of day, else date and time for every value
FormatTs(ts, withTime) ==
  IF ts = NaT THEN ""
  ELSE LET day == DayText[dt_date(ts) + 1]
       IN  IF ~withTime THEN day
           ELSE IF ts % TicksPerDay = 0 THEN day \o " 00:00:00"
           ELSE day \o " 13:00:00"

HasTime(frame, col) ==
  \E i \in DOMAIN frame :
     LET ts == IF col = "date" THEN frame[i].date ELSE frame[i].created_at
     IN  ts # NaT /\ ts % TicksPerDay # 0

FormatField(frame, r, col) ==
  CASE col = "id"          -> ToString(r.id)
    [] col = "category"    -> r.category
    [] col = "amount"      -> ToString(r.amount)
    [] col = "date"        -> FormatTs(r.date, HasTime(frame, col))
    [] col = "description" -> r.description
    [] col = "created_at"  -> FormatTs(r.created_at, HasTime(frame, col))

\* frame.to_csv(index=False): the header row, then one row per record of the
\* frame, every column of the frame in frame order
to_csv(frame) ==
  <<Columns>> \o
  [i \in 1..Len(frame) |->
     [c \in 1..Len(Columns) |-> FormatField(frame, frame[i], Columns[c])]]

\* ------------------------------------------------------------- load_data
\* what the network and the store do to one call of load_data
Nets == {"ok", "connect_fails", "query_fails"}

\* get_db_connection, then pd.read_sql_query, then conn.close(), then the
\* normalisation: the try block of load_data.  exc is the exception that ends
\* the block ("none": it returns df), connects the calls of get_db_connection
TryBlock(configOK, net, rows) ==
  IF ~configOK
  THEN [exc |-> "ValueError", connects |-> 1, opened |-> 0, closed |-> 0,
        df |-> <<>>]
  ELSE IF net = "connect_fails"
  THEN [exc |-> "OperationalError", connects |-> 1, opened |-> 0, closed |-> 0,
        df |-> <<>>]
  ELSE IF net = "query_fails"
  THEN [exc |-> "DatabaseError", connects |-> 1, opened |-> 1, closed |-> 0,
        df |-> <<>>]
  ELSE [exc |-> "none", connects |-> 1, opened |-> 1, closed |-> 1,
        df |-> Normalize(rows)]

\* (mutant) load_data without its last clause, "except Exception"
ExceptClausesNoCatchAll(variant) == <<"OperationalError">>

\* the except clauses of load_data, in order
ExceptClauses(variant) ==
  IF variant = "dashboard" THEN <<"OperationalError", "Exception">>
  ELSE <<"Exception">>

\* every exception of the try block is an Exception
Catches(clause, exc) == clause = "Exception" \/ clause = exc

\* the st.error text of the clause that catches
ErrorText(clause) ==
  IF clause = "OperationalError" THEN "Database connection error"
  ELSE "Error reading database"

\* the body of load_data: the frame it returns, the error it reports, or the
\* exception it lets through (raised)
load_data_body(variant, configOK, net, rows) ==
  LET t       == TryBlock(configOK, net, rows)
      clauses == ExceptClauses(variant)
      caught  == {i \in DOMAIN clauses : Catches(clauses[i], t.exc)}
      first   == CHOOSE i \in caught : \A j \in caught : i <= j
      out(frame, error, raised) ==
        [df |-> frame, error |-> error, raised |-> raised, exc |-> t.exc,
         connects |-> t.connects, opened |-> t.opened, closed |-> t.closed]
  IN  IF t.exc = "none" THEN out(t.df, "none", "none")
      ELSE IF caught = {} THEN out(<<>>, "none", t.exc)
      ELSE out(<<>>, ErrorText(clauses[first]), "none")

\* the single entry of st.cache_data for load_data (it takes no arguments)
NoEntry == [present |-> FALSE, df |-> <<>>, error |-> "none", age |-> 0]

\* (mutant) an entry that expires a second early
FreshExpiresEarly(entry) == entry.present /\ entry.age < TTL - 1

\* (mutant) an entry that never expires
FreshForever(entry) == entry.present

\* an entry is served while it is younger than the ttl
Fresh(entry) == entry.present /\ entry.age < TTL

\* (mutant) a clear() that leaves the entry in place
clearKeepsEntry(entry) == entry

\* load_data.clear()
clear(entry) == NoEntry

\* load_data() through @st.cache_data(ttl=5): a fresh entry is returned with
\* the st.error it recorded; otherwise the body runs and its return value is
\* stored.  cleared tells whether clear() preceded the call; fetches counts
\* the invocations of the data source, exc is the exception met inside.
load_data(entry, cleared, variant, configOK, net, rows) ==
  IF Fresh(entry)
  THEN [df |-> entry.df, error |-> entry.error, raised |-> "none",
        exc |-> "none", fetches |-> 0, opened |-> 0, closed |-> 0,
        cleared |-> cleared, entry |-> entry]
  ELSE LET b == load_data_body(variant, configOK, net, rows)
       IN  [df |-> b.df, error |-> b.error, raised |-> b.raised,
            exc |-> b.exc, fetches |-> b.connects, opened |-> b.opened,
            closed |-> b.closed, cleared |-> cleared,
            entry |-> IF b.raised = "none"
                      THEN [present |-> TRUE, df |-> b.df, error |-> b.error,
                            age |-> 0]
                      ELSE entry]

\* what the caller of load_data keeps of a call
CallOf(r) == [df |-> r.df, error |-> r.error, raised |-> r.raised,
              exc |-> r.exc, fetches |-> r.fetches, opened |-> r.opened,
              closed |-> r.closed, cleared |-> r.cleared]

\* ------------------------------------------------------------------ state
VARIABLES
  variant,     \* which script runs: "dashboard" or "dashboard1"
  configOK,    \* PGHOST, PGDATABASE, PGUSER and PGPASSWORD are all set
  table,       \* the rows of the transactions table, in id order
  cache,       \* the st.cache_data entry of load_data, with its age in seconds
  openConns,   \* connections opened by load_data and not closed
  op,          \* the last step: "init", "write", "tick", "run", "select", "refresh"
  calls,       \* the load_data calls of the last script run(s), in order
  df,          \* the frame the last load_data call returned
  page,        \* what the last run rendered: "blank", "nodata", "dashboard", "crash"
  categories,  \* the value of the Category multiselect in the last run
  date_from,   \* the value of the From date_input in the last run
  date_to,     \* the value of the To date_input in the last run
  filtered,    \* the filtered frame of the last run
  summary,     \* the Summary by Category table of the last run
  daily,       \* the daily totals of the last run
  csv          \* the data of the Export CSV button of the last run

vars == <<variant, configOK, table, cache, openConns, op, calls, df, page,
          categories, date_from, date_to, filtered, summary, daily, csv>>

Descriptions == {"lunch"}

CreatedAts == {"2024-01-02"}

Init ==
  /\ variant \in Variants
  /\ configOK \in BOOLEAN
  /\ table = <<>>
  /\ cache = NoEntry
  /\ openConns = 0
  /\ op = "init"
  /\ calls = <<>>
  /\ df = <<>>
  /\ page = "blank"
  /\ categories = {}
  /\ date_from = 0
  /\ date_to = 0
  /\ filtered = <<>>
  /\ summary = <<>>
  /\ daily = <<>>
  /\ csv = <<>>

\* the external writer (the bot) inserts a row; the store assigns the id
WriterAppend(c, a, d, text, created) ==
  /\ Len(table) < MaxRows
  /\ table' = Append(table, [id |-> Len(table) + 1, category |-> c, amount |-> a,
                             date |-> d, description |-> text,
                             created_at |-> created])
  /\ op' = "write"
  /\ UNCHANGED <<variant, configOK, cache, openConns, calls, df, page,
                 categories, date_from, date_to, filtered, summary, daily, csv>>

\* a second passes
Tick ==
  /\ cache.present
  /\ cache.age < MaxIdle
  /\ cache' = [cache EXCEPT !.age = @ + 1]
  /\ op' = "tick"
  /\ UNCHANGED <<variant, configOK, table, openConns, calls, df, page,
                 categories, date_from, date_to, filtered, summary, daily, csv>>

\* the rows the query of the running script can return
Query ==
  IF variant = "dashboard" THEN {SelectOrderByIdDesc(table)}
  ELSE SelectOrderByDateDesc(table)

\* the script below "df = load_data()" when there is nothing to show
ShowNoData(r) ==
  /\ df' = r.df
  /\ page' = IF r.raised # "none" THEN "crash" ELSE "nodata"
  /\ categories' = {}
  /\ date_from' = 0
  /\ date_to' = 0
  /\ filtered' = <<>>
  /\ summary' = <<>>
  /\ daily' = <<>>
  /\ csv' = <<>>

\* df['date'].min() and .max(): NaT is skipped, NaT when no date parses
date_min(frame) ==
  LET ds == {frame[i].date : i \in DOMAIN frame} \ {NaT}
  IN  IF ds = {} THEN NaT ELSE CHOOSE x \in ds : \A y \in ds : x <= y

date_max(frame) ==
  LET ds == {frame[i].date : i \in DOMAIN frame} \ {NaT}
  IN  IF ds = {} THEN NaT ELSE CHOOSE x \in ds : \A y \in ds : x >= y

\* what the three widgets return while the user has not touched them: every
\* category, and the first and last day of the frame, or date.today() twice
DefaultWidgets(frame) ==
  IF date_min(frame) # NaT /\ date_max(frame) # NaT
  THEN {<<categories_all(frame), dt_date(date_min(frame)), dt_date(date_max(frame))>>}
  ELSE {<<categories_all(frame), today, today>> : today \in Days}

\* what the three widgets can return after the user has set them
UserWidgets(frame) == (SUBSET categories_all(frame)) \X Days \X Days

\* (mutant) the export of the whole frame
export_csv_unfiltered(frame, view) == to_csv(frame)

\* the data of st.download_button("Export CSV", filtered.to_csv(index=False)):
\* of the loaded frame and its filtered view, the view is serialised
export_csv(frame, view) == to_csv(view)

\* the script below "df = load_data()" for a frame with rows: the widgets
\* return w, then the views and the export are derived
ShowDashboard(r, w) ==
  LET view == Filtered(r.df, w[1], w[2], w[3])
  IN  /\ df' = r.df
      /\ page' = "dashboard"
      /\ categories' = w[1]
      /\ date_from' = w[2]
      /\ date_to' = w[3]
      /\ filtered' = view
      /\ summary' \in Summaries(view)
      /\ daily' = Daily(variant, view)
      /\ csv' = export_csv(r.df, view)

\* touched: the user has set the widgets
Widgets(touched, frame) ==
  IF touched THEN UserWidgets(frame) ELSE DefaultWidgets(frame)

Show(r, touched) ==
  IF r.raised # "none" \/ r.df = <<>> THEN ShowNoData(r)
  ELSE \E w \in Widgets(touched, r.df) : ShowDashboard(r, w)

\* one run of the script: df = load_data(), then the page
Script(net, touched) ==
  \E rows \in Query :
    LET r == load_data(cache, FALSE, variant, configOK, net, rows)
    IN  /\ cache' = r.entry
        /\ openConns' = openConns + r.opened - r.closed
        /\ calls' = <<CallOf(r)>>
        /\ Show(r, touched)

\* the page is loaded, or reloaded: the widgets are at their defaults
Rerun(net) ==
  /\ net = "query_fails" => openConns < MaxOpen
  /\ Script(net, FALSE)
  /\ op' = "run"
  /\ UNCHANGED <<variant, configOK, table>>

\* the user sets the filter widgets, and the script runs with their values
Select(net) ==
  /\ net = "query_fails" => openConns < MaxOpen
  /\ Script(net, TRUE)
  /\ op' = "select"
  /\ UNCHANGED <<variant, configOK, table>>

\* a click on "Refresh now" (dashboard.py, rendered with the dashboard): the
\* script runs; when it reaches the button it clears the entry and st.rerun()
\* starts the script again
Refresh(net1, net2) ==
  /\ variant = "dashboard"
  /\ page = "dashboard"
  /\ (net1 = "query_fails" \/ net2 = "query_fails") => openConns < MaxOpen
  /\ \E rows \in Query :
       LET r1 == load_data(cache, FALSE, variant, configOK, net1, rows)
           r2 == load_data(clear(r1.entry), TRUE, variant, configOK, net2, rows)
       IN  IF r1.raised # "none" \/ r1.df = <<>>
           THEN /\ cache' = r1.entry
                /\ openConns' = openConns + r1.opened - r1.closed
                /\ calls' = <<CallOf(r1)>>
                /\ Show(r1, FALSE)
           ELSE /\ cache' = r2.entry
                /\ openConns' = openConns + (r1.opened - r1.closed)
                                          + (r2.opened - r2.closed)
                /\ calls' = <<CallOf(r1), CallOf(r2)>>
                /\ Show(r2, FALSE)
  /\ op' = "refresh"
  /\ UNCHANGED <<variant, configOK, table>>

\* ------------------------------------------------- the running dashboard
\* rows the writer inserts while the dashboard is watched
Inserts == {<<"food", 2, "2024-01-01 13:00">>, <<"rent", 1, "n/a">>,
            <<"food", 1, "2024-01-02">>}

Next ==
  \/ \E ins \in Inserts, text \in Descriptions, created \in CreatedAts :
        WriterAppend(ins[1], ins[2], ins[3], text, created)
  \/ Tick
  \/ \E net \in Nets : Rerun(net)
  \/ \E net1 \in Nets, net2 \in Nets : Refresh(net1, net2)

Spec == Init /\ [][Next]_vars

\* ------------------------------------ the pipeline over every small table
\* every table of at most MaxRows rows, ids assigned in insertion order
Tables ==
  LET Shapes == Categories \X Amounts \X RawDates \X Descriptions \X CreatedAts
  IN  UNION {{[i \in 1..n |->
                 [id |-> i, category |-> f[i][1], amount |-> f[i][2],
                  date |-> f[i][3], description |-> f[i][4],
                  created_at |-> f[i][5]]] : f \in [1..n -> Shapes]}
             : n \in 0..MaxRows}

InitView ==
  /\ variant \in Variants
  /\ configOK = TRUE
  /\ table \in Tables
  /\ cache = NoEntry
  /\ openConns = 0
  /\ op = "init"
  /\ calls = <<>>
  /\ df = <<>>
  /\ page = "blank"
  /\ categories = {}
  /\ date_from = 0
  /\ date_to = 0
  /\ filtered = <<>>
  /\ summary = <<>>
  /\ daily = <<>>
  /\ csv = <<>>

\* the first run of a session over the table, with the user's selection
NextView == op = "init" /\ Select("ok")

SpecView == InitView /\ [][NextView]_vars

\* ------------------------------------------------------------ properties
\* the steps that run the script
Runs == {"run", "select", "refresh"}

LastCall == calls[Len(calls)]

\* C1: a load_data call that finds the entry stored by the previous call less
\* than 5 seconds old, with no clear() in between, does not invoke the data
\* source and returns the frame the previous call returned.
C1_FreshEntryServedWithoutFetch ==
  [][(op' \in Runs /\ cache.present /\ cache.age < TTL)
       => /\ ~calls'[1].cleared
          /\ calls'[1].fetches = 0
          /\ calls'[1].df = df]_vars

\* a run served from the entry although the table has grown since the fetch
C1_Witness ==
  /\ op = "run"
  /\ calls[1].fetches = 0
  /\ df # <<>>
  /\ Len(table) > Len(df)

\* C2: the load_data call that follows load_data.clear() invokes the data
\* source exactly once, also when the call before the clear() was served from
\* an entry inside its validity window.
C2_CallAfterClearFetchesOnce ==
  \A k \in DOMAIN calls : calls[k].cleared => calls[k].fetches = 1

\* a Refresh now whose first run was served from the entry and whose rerun,
\* in the same second, went to the data source
C2_Witness ==
  /\ op = "refresh"
  /\ Len(calls) = 2
  /\ calls[1].fetches = 0
  /\ calls[2].cleared
  /\ calls[2].fetches = 1

\* C3: load_data never raises to the script; whenever its data access ends in
\* an exception (missing parameters, connection failure, query failure) it
\* reports an error and returns the empty frame, and the run renders the
\* "no data" page, never a crash.
C3_LoadDataNeverRaises ==
  /\ page # "crash"
  /\ \A k \in DOMAIN calls :
       /\ calls[k].raised = "none"
       /\ calls[k].exc # "none" => calls[k].df = <<>> /\ calls[k].error # "none"
  /\ (op \in Runs /\ LastCall.exc # "none") => page = "nodata" /\ df = <<>>

\* dashboard.py, whose first clause does not match, meets a failing query on
\* a table that has rows, and shows the "no data" page
C3_Witness ==
  /\ variant = "dashboard"
  /\ op \in Runs
  /\ LastCall.exc = "DatabaseError"
  /\ LastCall.error = "Error reading database"
  /\ table # <<>>
  /\ page = "nodata"

\* C4: the run that follows a run whose data access failed with a connection
\* error invokes the data source again, whatever time has passed.
C4_RetryAfterConnectionError ==
  [][(op' \in Runs /\ op \in Runs /\ LastCall.exc = "OperationalError")
       => calls'[1].fetches = 1]_vars

\* C9: every connection load_data opens is closed before it returns, and no
\* connection stays open after any sequence of runs.
C9_NoConnectionLeftOpen ==
  /\ openConns = 0
  /\ \A k \in DOMAIN calls : calls[k].opened = calls[k].closed

\* C10: the frame a load_data call returns was produced by a run of its body
\* at most 5 seconds before the call, and a call that finds the entry more
\* than 5 seconds old invokes the data source.
C10_StalenessWithinOneWindow ==
  [][op' \in Runs
       => /\ cache'.present /\ cache'.df = df' /\ cache'.age <= TTL
          /\ (cache.present /\ cache.age > TTL) => calls'[1].fetches = 1]_vars

\* a run served a frame fetched 4 seconds earlier, the oldest that is served
C10_Witness ==
  /\ op \in Runs
  /\ calls[1].fetches = 0
  /\ cache.age = TTL - 1
  /\ cache.df = df

\* the calendar day of an entry of the daily series
EntryDay(e) == IF variant = "dashboard" THEN e.date ELSE dt_date(e.date)

InView(r) == \E j \in DOMAIN filtered : filtered[j] = r

\* C5: a record of the loaded frame is in the filtered view iff its category
\* is selected and its date is not null and its calendar day lies between
\* date_from and date_to, both included.
C5_FilterInclusionRule ==
  page = "dashboard" =>
    \A i \in DOMAIN df :
      InView(df[i]) <=> /\ df[i].category \in categories
                        /\ df[i].date # NaT
                        /\ date_from <= dt_date(df[i].date)
                        /\ dt_date(df[i].date) <= date_to

\* C6: the summary has one entry per category of the view with the sum of its
\* amounts, ordered by sum descending, equal sums by category text ascending.
C6_SummaryOrderedWithTieBreak ==
  page = "dashboard" =>
    /\ {summary[k].category : k \in DOMAIN summary} = categories_all(filtered)
    /\ Len(summary) = Cardinality(categories_all(filtered))
    /\ \A k \in DOMAIN summary :
         summary[k].amount =
           SumAmount(SelectSeq(filtered, LAMBDA r : r.category = summary[k].category))
    /\ \A k \in DOMAIN summary, m \in DOMAIN summary :
         k < m => \/ summary[k].amount > summary[m].amount
                  \/ /\ summary[k].amount = summary[m].amount
                     /\ CategoryRank(summary[k].category)
                          < CategoryRank(summary[m].category)

\* C7: in both scripts the daily series has one entry per calendar day of the
\* view, in strictly increasing day order, each with the sum of that day.
C7_DailyOneEntryPerDay ==
  page = "dashboard" =>
    /\ {EntryDay(daily[k]) : k \in DOMAIN daily}
         = {dt_date(filtered[j].date) : j \in DOMAIN filtered}
    /\ \A k \in DOMAIN daily, m \in DOMAIN daily :
         k < m => EntryDay(daily[k]) < EntryDay(daily[m])
    /\ \A k \in DOMAIN daily :
         daily[k].amount =
           SumAmount(SelectSeq(filtered,
                       LAMBDA r : dt_date(r.date) = EntryDay(daily[k])))

\* the data rows of the export are the records of the view, one each, in order
ExportRowsAreTheView ==
  /\ Len(csv) = Len(filtered) + 1
  /\ \A j \in DOMAIN filtered :
       LET line == csv[j + 1]
       IN  \A c \in DOMAIN csv[1] :
             /\ csv[1][c] = "id" => line[c] = ToString(filtered[j].id)
             /\ csv[1][c] = "category" => line[c] = filtered[j].category
             /\ csv[1][c] = "amount" => line[c] = ToString(filtered[j].amount)
             /\ csv[1][c] = "description" => line[c] = filtered[j].description

====
